---------------------------- MODULE Spec2Model ----------------------------
(***************************************************************************)
(* Trigger simulation: the merge scheduler (Generator), the Memory Lookup  *)
(* Unit (Mlu::process) and the TRG box driven by World::run, with the      *)
(* observer's callbacks recorded as a log.                                 *)
(* The text format of a LookupTable (Display, FromStr) is modelled on      *)
(* texts as sequences of characters.                                       *)
(*                                                                         *)
(* Time is the integers (the tests' i32).  An Option<T> is the empty       *)
(* sequence (None) or a one-element sequence (Some).                       *)
(***************************************************************************)
EXTENDS Integers, Sequences, FiniteSets, TLC

(***************************************************************************)
(* Bounds of the model.                                                    *)
(***************************************************************************)
\* add_generator calls on the builder of a World whose configuration varies
MaxGens == 1
\* add_generator calls on the builder of a World of one configuration
MaxMergeGens == 3
\* events of the finite sources together, and events pulled in one run
MaxPulls == 4
\* largest origin of a source and largest inter-arrival time of its events
MaxGap == 2
\* largest prompt_window and wait_gate
MaxWindow == 2
\* largest drift_veto and dead_time
MaxHold == 3
\* largest scaledown
MaxScaledown == 1
\* events pulled in one run of the World of the tests
MaxTrgPulls == 6
\* patterns of a lookup table that is written and read back whole
MaxLines == 2
\* largest value of the scaledown counter's type: the model's u32::MAX
CounterMax == 3

\* wire patterns the sources draw from; their ORs stay below 4
Patterns == {1, 2}
\* the one pattern of the sources of a World of one configuration
OnePattern == {1}
\* lookup tables the World is built with
Tables == {{1}, {1, 3}}
\* a source that never ends
Infinite == -1
\* the World of the tests (world_drift_veto, world_scaledown, world_dead_time,
\* world_trg_out): origins and inter-arrival times of its source, and its TRG box
TrgOrigins == {0, 4}
TrgGaps == {3, 4}
TrgDriftVetos == {1, 5}
TrgScaledowns == {0, 1, 2, CounterMax}
TrgDeadTimes == {7}

None == << >>
Some(x) == << x >>

VARIABLES
    pc,             \* "build" (WorldBuilder), "run" (World::run's loop), "done"
    nreg,           \* add_generator calls so far
    generator,      \* World.generator: the live sources, in registration order
    mlu,            \* World.mlu.state
    prompt_window,  \* World.mlu.prompt_window
    wait_gate,      \* World.mlu.wait_gate
    table,          \* World.mlu.table
    drift_veto,     \* World.drift_veto
    scaledown,      \* World.scaledown
    dead_time,      \* World.dead_time
    veto_until,     \* World.veto_until
    busy_until,     \* World.busy_until
    counter,        \* World.counter
    prev_event,     \* World.prev_event
    observer,       \* World.observer: the callbacks it has received, in order
    sources,        \* history: the events each registered source has yielded
    lens,           \* history: the number of events of each registered source
    merged,         \* history: the events pulled from the merge scheduler
    window,         \* history: the indices in merged of the events of the open window
    step,           \* history: the last loop iteration (state before, signal, callbacks)
    text,           \* the text of a lookup table: written by to_string, read by from_str
    parsed          \* the result of from_str on text, if it was called

config == << prompt_window, wait_gate, table, drift_veto, scaledown, dead_time >>
trgbox == << veto_until, busy_until, counter >>
vars == << pc, nreg, generator, mlu, prompt_window, wait_gate, table, drift_veto,
           scaledown, dead_time, veto_until, busy_until, counter, prev_event,
           observer, sources, lens, merged, window, step, text, parsed >>
textio == << text, parsed >>

(***************************************************************************)
(* WirePattern: a 16-bit mask, combined by bitwise OR.                     *)
(***************************************************************************)
RECURSIVE BitOrN(_, _, _)
BitOrN(a, b, n) ==
    IF n = 0 THEN 0
    ELSE (IF (a % 2 = 1) \/ (b % 2 = 1) THEN 1 ELSE 0)
         + 2 * BitOrN(a \div 2, b \div 2, n - 1)

BitOr(a, b) == BitOrN(a, b, 16)

(***************************************************************************)
(* LookupTable: the set of the indices whose entry is true.                *)
(***************************************************************************)
Contains(t, wire_pattern) == wire_pattern \in t

(***************************************************************************)
(* Mlu::process.  The result is the next state and the returned signal.    *)
(***************************************************************************)
Idle == [tag |-> "Idle"]
Accumulate(stop_time, cumulative) ==
    [tag |-> "Accumulate", stop_time |-> stop_time, cumulative |-> cumulative]
Wait(stop_time) == [tag |-> "Wait", stop_time |-> stop_time]

TrgSignal(time) == [time |-> time]

\* mutant: the decision is reported at the time of the closing event
DecisionAtEvent(t, stop_time, cumulative, event) ==
    IF Contains(t, cumulative) THEN Some(TrgSignal(event.time)) ELSE None

\* mutant: the closing event's pattern is OR-ed in before the table is consulted
DecisionWithEvent(t, stop_time, cumulative, event) ==
    IF Contains(t, BitOr(cumulative, event.wire_pattern))
    THEN Some(TrgSignal(stop_time)) ELSE None

\* the decision at window close, on the pattern accumulated before the closing event
Decision(t, stop_time, cumulative, event) ==
    IF Contains(t, cumulative) THEN Some(TrgSignal(stop_time)) ELSE None

\* mutant: an event exactly at stop_time still belongs to the window
MluAccumulateInclusive(state, event, pw, wg, t) ==
    IF event.time <= state.stop_time
    THEN [state  |-> Accumulate(state.stop_time,
                                BitOr(state.cumulative, event.wire_pattern)),
          signal |-> None]
    ELSE IF event.time < state.stop_time + wg
    THEN [state  |-> Wait(event.time + wg),
          signal |-> Decision(t, state.stop_time, state.cumulative, event)]
    ELSE [state  |-> Accumulate(event.time + pw, event.wire_pattern),
          signal |-> Decision(t, state.stop_time, state.cumulative, event)]

\* mutant: the wait gate is measured from the close of the window
MluAccumulateGateFromStop(state, event, pw, wg, t) ==
    IF event.time < state.stop_time
    THEN [state  |-> Accumulate(state.stop_time,
                                BitOr(state.cumulative, event.wire_pattern)),
          signal |-> None]
    ELSE IF event.time < state.stop_time + wg
    THEN [state  |-> Wait(state.stop_time + wg),
          signal |-> Decision(t, state.stop_time, state.cumulative, event)]
    ELSE [state  |-> Accumulate(event.time + pw, event.wire_pattern),
          signal |-> Decision(t, state.stop_time, state.cumulative, event)]

\* mutant: every closing event starts a wait gate
MluAccumulateAlwaysWait(state, event, pw, wg, t) ==
    IF event.time < state.stop_time
    THEN [state  |-> Accumulate(state.stop_time,
                                BitOr(state.cumulative, event.wire_pattern)),
          signal |-> None]
    ELSE IF event.time < state.stop_time + wg
    THEN [state  |-> Wait(event.time + wg),
          signal |-> Decision(t, state.stop_time, state.cumulative, event)]
    ELSE [state  |-> Wait(event.time + wg),
          signal |-> Decision(t, state.stop_time, state.cumulative, event)]

\* mutant: a window closed by a late event is reported at the close of the new one
MluAccumulateSignalAtNewStop(state, event, pw, wg, t) ==
    IF event.time < state.stop_time
    THEN [state  |-> Accumulate(state.stop_time,
                                BitOr(state.cumulative, event.wire_pattern)),
          signal |-> None]
    ELSE IF event.time < state.stop_time + wg
    THEN [state  |-> Wait(event.time + wg),
          signal |-> Decision(t, state.stop_time, state.cumulative, event)]
    ELSE [state  |-> Accumulate(event.time + pw, event.wire_pattern),
          signal |-> IF Contains(t, state.cumulative)
                     THEN Some(TrgSignal(event.time + pw)) ELSE None]

MluAccumulate(state, event, pw, wg, t) ==
    IF event.time < state.stop_time
    THEN [state  |-> Accumulate(state.stop_time,
                                BitOr(state.cumulative, event.wire_pattern)),
          signal |-> None]
    ELSE IF event.time < state.stop_time + wg
    THEN [state  |-> Wait(event.time + wg),
          signal |-> Decision(t, state.stop_time, state.cumulative, event)]
    ELSE [state  |-> Accumulate(event.time + pw, event.wire_pattern),
          signal |-> Decision(t, state.stop_time, state.cumulative, event)]

\* mutant: an event inside the wait gate does not move its end
MluWaitNoExtend(state, event, pw, wg) ==
    IF event.time < state.stop_time
    THEN [state |-> Wait(state.stop_time), signal |-> None]
    ELSE [state |-> Accumulate(event.time + pw, event.wire_pattern), signal |-> None]

\* mutant: an event exactly at the end of the wait gate is still inside it
MluWaitInclusive(state, event, pw, wg) ==
    IF event.time <= state.stop_time
    THEN [state |-> Wait(event.time + wg), signal |-> None]
    ELSE [state |-> Accumulate(event.time + pw, event.wire_pattern), signal |-> None]

MluWait(state, event, pw, wg) ==
    IF event.time < state.stop_time
    THEN [state |-> Wait(event.time + wg), signal |-> None]
    ELSE [state |-> Accumulate(event.time + pw, event.wire_pattern), signal |-> None]

MluIdle(event, pw) ==
    [state |-> Accumulate(event.time + pw, event.wire_pattern), signal |-> None]

MluProcess(state, event, pw, wg, t) ==
    CASE state.tag = "Accumulate" -> MluAccumulate(state, event, pw, wg, t)
      [] state.tag = "Wait"       -> MluWait(state, event, pw, wg)
      [] state.tag = "Idle"       -> MluIdle(event, pw)


(***************************************************************************)
(* The merge scheduler (Generator): the live sources as peekable cursors,  *)
(* in registration order.  A source is [id, head, left]: its registration  *)
(* number, its peeked next event, and the number of events after the head  *)
(* (Infinite for a source that never ends).  What a source yields next is  *)
(* its own business: any event not earlier than its last one.              *)
(***************************************************************************)
WireEvent(source, time, wire_pattern) ==
    [source |-> source, time |-> time, wire_pattern |-> wire_pattern]

\* the first events a source may yield
FirstEvents(id, pats) ==
    { WireEvent(id, t, p) : t \in 0..MaxGap, p \in pats }

\* what the source yields after its head: None when it has ended
NextEvents(src, pats) ==
    IF src.left = 0 THEN { None }
    ELSE { Some(WireEvent(src.id, t, p)) :
             t \in src.head.time..(src.head.time + MaxGap), p \in pats }

\* Generator::add_generator: a source with no event is discarded at once
Register(gens, id, n, first) ==
    IF n = 0 THEN gens
    ELSE Append(gens, [id |-> id, head |-> first,
                       left |-> IF n = Infinite THEN Infinite ELSE n - 1])

\* mutant: the first live source, whatever its peeked time
MinIndexFirst(gens) == 1

\* mutant: the minimum peeked time, the latest registered on a tie
MinIndexLatest(gens) ==
    CHOOSE i \in 1..Len(gens) :
        \A j \in 1..Len(gens) :
            /\ gens[i].head.time <= gens[j].head.time
            /\ j > i => gens[j].head.time > gens[i].head.time

\* the source to pull from: the minimum peeked time, the earliest registered on a tie
MinIndex(gens) ==
    CHOOSE i \in 1..Len(gens) :
        \A j \in 1..Len(gens) :
            /\ gens[i].head.time <= gens[j].head.time
            /\ j < i => gens[j].head.time > gens[i].head.time

\* mutant: the last live source is dropped, not the exhausted one
RemoveLast(s, i) == SubSeq(s, 1, Len(s) - 1)

RemoveAt(s, i) == SubSeq(s, 1, i - 1) \o SubSeq(s, i + 1, Len(s))

\* mutant: a source that has ended stays in the collection
AdvanceKeep(gens, i, nxt) ==
    IF nxt = None THEN gens
    ELSE [gens EXCEPT ![i].head = nxt[1],
                      ![i].left = IF @ = Infinite THEN Infinite ELSE @ - 1]

\* the sources after source i has yielded its head and peeked nxt
Advance(gens, i, nxt) ==
    IF nxt = None THEN RemoveAt(gens, i)
    ELSE [gens EXCEPT ![i].head = nxt[1],
                      ![i].left = IF @ = Infinite THEN Infinite ELSE @ - 1]

(***************************************************************************)
(* The TRG box of World::run: drift veto, scaledown, dead time.            *)
(***************************************************************************)
Call(cb, arg, n) == [cb |-> cb, arg |-> arg, iter |-> n]

\* mutant: the event just pulled is reported at once, without the one-event lag
WireEventCallsNoLag(prev, event, n) == << Call("on_wire_event", event, n) >>

\* the event reported at the head of an iteration: the previous one
WireEventCalls(prev, event, n) ==
    IF prev # None THEN << Call("on_wire_event", prev[1], n - 1) >> ELSE << >>

\* mutant: a candidate exactly at the watermark is let through
DriftVetoedStrict(signal, vu) == vu # None /\ signal.time < vu[1]

DriftVetoed(signal, vu) == vu # None /\ signal.time <= vu[1]

\* mutant: the counter is compared with scaledown + 1
ScaledDownOffByOne(c, sd) == c # sd + 1

ScaledDown(c, sd) == c # sd

\* counter += 1 on the counter's type: past its largest value the sum wraps (a
\* build with overflow checks panics there instead)
Incr(c) == (c + 1) % (CounterMax + 1)

\* mutant: a candidate exactly at the end of the busy period is accepted
BusyStrict(signal, bu) == bu # None /\ signal.time < bu[1]

Busy(signal, bu) == bu # None /\ signal.time <= bu[1]

\* mutant: only an accepted output moves the drift-veto watermark
TrgBoxVetoOnOutput(signal, vu, bu, c, dv, sd, dt, n) ==
    IF DriftVetoed(signal, vu)
    THEN [veto_until |-> vu, busy_until |-> bu, counter |-> c,
          calls |-> << Call("on_trg_in", signal, n),
                       Call("on_trg_drift_veto", signal, n) >>]
    ELSE IF ScaledDown(c, sd)
    THEN [veto_until |-> vu, busy_until |-> bu, counter |-> Incr(c),
          calls |-> << Call("on_trg_in", signal, n),
                       Call("on_trg_scaledown", signal, n) >>]
    ELSE IF Busy(signal, bu)
    THEN [veto_until |-> vu, busy_until |-> bu, counter |-> 0,
          calls |-> << Call("on_trg_in", signal, n),
                       Call("on_trg_dead_time", signal, n) >>]
    ELSE [veto_until |-> Some(signal.time + dv),
          busy_until |-> Some(signal.time + dt), counter |-> 0,
          calls |-> << Call("on_trg_in", signal, n),
                       Call("on_trg_out", signal, n) >>]

\* mutant: a candidate suppressed by dead time starts a new busy period
TrgBoxBusyExtends(signal, vu, bu, c, dv, sd, dt, n) ==
    IF DriftVetoed(signal, vu)
    THEN [veto_until |-> vu, busy_until |-> bu, counter |-> c,
          calls |-> << Call("on_trg_in", signal, n),
                       Call("on_trg_drift_veto", signal, n) >>]
    ELSE IF ScaledDown(c, sd)
    THEN [veto_until |-> Some(signal.time + dv), busy_until |-> bu, counter |-> Incr(c),
          calls |-> << Call("on_trg_in", signal, n),
                       Call("on_trg_scaledown", signal, n) >>]
    ELSE IF Busy(signal, bu)
    THEN [veto_until |-> Some(signal.time + dv), busy_until |-> Some(signal.time + dt), counter |-> 0,
          calls |-> << Call("on_trg_in", signal, n),
                       Call("on_trg_dead_time", signal, n) >>]
    ELSE [veto_until |-> Some(signal.time + dv),
          busy_until |-> Some(signal.time + dt), counter |-> 0,
          calls |-> << Call("on_trg_in", signal, n),
                       Call("on_trg_out", signal, n) >>]

\* mutant: the scaledown counter is not reset when a candidate passes
TrgBoxNoReset(signal, vu, bu, c, dv, sd, dt, n) ==
    IF DriftVetoed(signal, vu)
    THEN [veto_until |-> vu, busy_until |-> bu, counter |-> c,
          calls |-> << Call("on_trg_in", signal, n),
                       Call("on_trg_drift_veto", signal, n) >>]
    ELSE IF ScaledDown(c, sd)
    THEN [veto_until |-> Some(signal.time + dv), busy_until |-> bu, counter |-> Incr(c),
          calls |-> << Call("on_trg_in", signal, n),
                       Call("on_trg_scaledown", signal, n) >>]
    ELSE IF Busy(signal, bu)
    THEN [veto_until |-> Some(signal.time + dv), busy_until |-> bu, counter |-> c,
          calls |-> << Call("on_trg_in", signal, n),
                       Call("on_trg_dead_time", signal, n) >>]
    ELSE [veto_until |-> Some(signal.time + dv),
          busy_until |-> Some(signal.time + dt), counter |-> c,
          calls |-> << Call("on_trg_in", signal, n),
                       Call("on_trg_out", signal, n) >>]

\* mutant: a candidate that passes the scaledown is reported to on_trg_scaledown too
TrgBoxSurvived(signal, vu, bu, c, dv, sd, dt, n) ==
    IF DriftVetoed(signal, vu)
    THEN [veto_until |-> vu, busy_until |-> bu, counter |-> c,
          calls |-> << Call("on_trg_in", signal, n),
                       Call("on_trg_drift_veto", signal, n) >>]
    ELSE IF ScaledDown(c, sd)
    THEN [veto_until |-> Some(signal.time + dv), busy_until |-> bu, counter |-> Incr(c),
          calls |-> << Call("on_trg_in", signal, n),
                       Call("on_trg_scaledown", signal, n) >>]
    ELSE IF Busy(signal, bu)
    THEN [veto_until |-> Some(signal.time + dv), busy_until |-> bu, counter |-> 0,
          calls |-> << Call("on_trg_in", signal, n),
                       Call("on_trg_scaledown", signal, n),
                       Call("on_trg_dead_time", signal, n) >>]
    ELSE [veto_until |-> Some(signal.time + dv),
          busy_until |-> Some(signal.time + dt), counter |-> 0,
          calls |-> << Call("on_trg_in", signal, n),
                       Call("on_trg_scaledown", signal, n),
                       Call("on_trg_out", signal, n) >>]

\* mutant: a vetoed candidate moves the drift-veto watermark
TrgBoxVetoExtends(signal, vu, bu, c, dv, sd, dt, n) ==
    IF DriftVetoed(signal, vu)
    THEN [veto_until |-> Some(signal.time + dv), busy_until |-> bu, counter |-> c,
          calls |-> << Call("on_trg_in", signal, n),
                       Call("on_trg_drift_veto", signal, n) >>]
    ELSE IF ScaledDown(c, sd)
    THEN [veto_until |-> Some(signal.time + dv), busy_until |-> bu, counter |-> Incr(c),
          calls |-> << Call("on_trg_in", signal, n),
                       Call("on_trg_scaledown", signal, n) >>]
    ELSE IF Busy(signal, bu)
    THEN [veto_until |-> Some(signal.time + dv), busy_until |-> bu, counter |-> 0,
          calls |-> << Call("on_trg_in", signal, n),
                       Call("on_trg_dead_time", signal, n) >>]
    ELSE [veto_until |-> Some(signal.time + dv),
          busy_until |-> Some(signal.time + dt), counter |-> 0,
          calls |-> << Call("on_trg_in", signal, n),
                       Call("on_trg_out", signal, n) >>]

\* mutant: the dead time is tried before the scaledown
TrgBoxDeadTimeFirst(signal, vu, bu, c, dv, sd, dt, n) ==
    IF DriftVetoed(signal, vu)
    THEN [veto_until |-> vu, busy_until |-> bu, counter |-> c,
          calls |-> << Call("on_trg_in", signal, n),
                       Call("on_trg_drift_veto", signal, n) >>]
    ELSE IF Busy(signal, bu)
    THEN [veto_until |-> Some(signal.time + dv), busy_until |-> bu, counter |-> c,
          calls |-> << Call("on_trg_in", signal, n),
                       Call("on_trg_dead_time", signal, n) >>]
    ELSE IF ScaledDown(c, sd)
    THEN [veto_until |-> Some(signal.time + dv), busy_until |-> bu, counter |-> Incr(c),
          calls |-> << Call("on_trg_in", signal, n),
                       Call("on_trg_scaledown", signal, n) >>]
    ELSE [veto_until |-> Some(signal.time + dv),
          busy_until |-> Some(signal.time + dt), counter |-> 0,
          calls |-> << Call("on_trg_in", signal, n),
                       Call("on_trg_out", signal, n) >>]

\* mutant: a candidate suppressed by the dead time leaves the scaledown counter at
\* scaledown
TrgBoxDeadTimeKeepsCounter(signal, vu, bu, c, dv, sd, dt, n) ==
    IF DriftVetoed(signal, vu)
    THEN [veto_until |-> vu, busy_until |-> bu, counter |-> c,
          calls |-> << Call("on_trg_in", signal, n),
                       Call("on_trg_drift_veto", signal, n) >>]
    ELSE IF ScaledDown(c, sd)
    THEN [veto_until |-> Some(signal.time + dv), busy_until |-> bu, counter |-> Incr(c),
          calls |-> << Call("on_trg_in", signal, n),
                       Call("on_trg_scaledown", signal, n) >>]
    ELSE IF Busy(signal, bu)
    THEN [veto_until |-> Some(signal.time + dv), busy_until |-> bu, counter |-> c,
          calls |-> << Call("on_trg_in", signal, n),
                       Call("on_trg_dead_time", signal, n) >>]
    ELSE [veto_until |-> Some(signal.time + dv),
          busy_until |-> Some(signal.time + dt), counter |-> 0,
          calls |-> << Call("on_trg_in", signal, n),
                       Call("on_trg_out", signal, n) >>]

\* the TRG box after a candidate, and the callbacks it made
TrgBox(signal, vu, bu, c, dv, sd, dt, n) ==
    IF DriftVetoed(signal, vu)
    THEN [veto_until |-> vu, busy_until |-> bu, counter |-> c,
          calls |-> << Call("on_trg_in", signal, n),
                       Call("on_trg_drift_veto", signal, n) >>]
    ELSE IF ScaledDown(c, sd)
    THEN [veto_until |-> Some(signal.time + dv), busy_until |-> bu, counter |-> Incr(c),
          calls |-> << Call("on_trg_in", signal, n),
                       Call("on_trg_scaledown", signal, n) >>]
    ELSE IF Busy(signal, bu)
    THEN [veto_until |-> Some(signal.time + dv), busy_until |-> bu, counter |-> 0,
          calls |-> << Call("on_trg_in", signal, n),
                       Call("on_trg_dead_time", signal, n) >>]
    ELSE [veto_until |-> Some(signal.time + dv),
          busy_until |-> Some(signal.time + dt), counter |-> 0,
          calls |-> << Call("on_trg_in", signal, n),
                       Call("on_trg_out", signal, n) >>]

\* mutant: the candidate's callbacks fire before the lagging wire event
RunCallsTrgFirst(wire, trg) == trg \o wire

\* the callbacks of one iteration: the lagging wire event, then the candidate's
RunCalls(wire, trg) == wire \o trg

\* the TRG box after one event: untouched when the MLU returned no signal
Admission(signal, vu, bu, c, dv, sd, dt, n) ==
    IF signal = None
    THEN [veto_until |-> vu, busy_until |-> bu, counter |-> c, calls |-> << >>]
    ELSE TrgBox(signal[1], vu, bu, c, dv, sd, dt, n)

(***************************************************************************)
(* Construction: World::builder(), add_generator, build.                   *)
(***************************************************************************)
NoStep == [iter |-> 0]

RECURSIVE SumLens(_, _)
SumLens(l, k) ==
    IF k = 0 THEN 0
    ELSE (IF l[k] = Infinite THEN 0 ELSE l[k]) + SumLens(l, k - 1)

\* events the finite sources registered so far will yield
Registered == SumLens(lens, Len(lens))

\* World::builder() with the configuration drawn from the given sets
InitWith(pws, wgs, tables, dvs, sds, dts) ==
    /\ pc = "build"
    /\ nreg = 0
    /\ generator = << >>
    /\ mlu = Idle
    /\ prompt_window \in pws
    /\ wait_gate \in wgs
    /\ table \in tables
    /\ drift_veto \in dvs
    /\ scaledown \in sds
    /\ dead_time \in dts
    /\ veto_until = None
    /\ busy_until = None
    /\ counter = 0
    /\ prev_event = None
    /\ observer = << >>
    /\ sources = << >>
    /\ lens = << >>
    /\ merged = << >>
    /\ window = << >>
    /\ step = NoStep
    /\ text = << >>
    /\ parsed = None

Init ==
    InitWith(1..MaxWindow, 1..MaxWindow, Tables, {1, MaxHold}, 0..MaxScaledown,
             {1, MaxHold})

\* one configuration
InitMerge == InitWith({1}, {1}, {{1}}, {1}, {0}, {1})

\* the lengths a new source may have
Lengths(endless) ==
    0..(MaxPulls - Registered) \cup (IF endless THEN {Infinite} ELSE {})

\* the source of the tests: one pattern, the first event at an origin, the others
\* an inter-arrival time apart
TrgFirstEvents(id) == { WireEvent(id, t, 1) : t \in TrgOrigins }

TrgNextEvents(src) ==
    IF src.left = 0 THEN { None }
    ELSE { Some(WireEvent(src.id, src.head.time + g, 1)) : g \in TrgGaps }

\* WorldBuilder::add_generator with a source of n events
Registration(maxgens, lengths, firsts) ==
    /\ pc = "build"
    /\ nreg < maxgens
    /\ \E n \in lengths :
       \E first \in firsts :
          /\ n = 0 => first = CHOOSE f \in firsts : TRUE
          /\ generator' = Register(generator, nreg + 1, n, first)
          /\ sources' = Append(sources, IF n = 0 THEN << >> ELSE << first >>)
          /\ lens' = Append(lens, n)
    /\ nreg' = nreg + 1
    /\ UNCHANGED << pc, mlu, config, trgbox, prev_event, observer, merged, window,
                    step, textio >>

AddGenerator(maxgens, endless, pats) ==
    Registration(maxgens, Lengths(endless), FirstEvents(nreg + 1, pats))

AddTrgGenerator ==
    Registration(1, 0..MaxTrgPulls, TrgFirstEvents(nreg + 1))

\* build() and the call of run()
Build ==
    /\ pc = "build"
    /\ pc' = "run"
    /\ UNCHANGED << nreg, generator, mlu, config, trgbox, prev_event, observer,
                    sources, lens, merged, window, step, textio >>

(***************************************************************************)
(* World::run: one iteration of the loop over the merged events.           *)
(***************************************************************************)
LoopBody(maxpulls, nexts) ==
    /\ pc = "run"
    /\ generator # << >>
    /\ Len(merged) < maxpulls
    /\ LET i == MinIndex(generator)
           src == generator[i]
           event == src.head
           n == Len(merged) + 1
           res == MluProcess(mlu, event, prompt_window, wait_gate, table)
           box == Admission(res.signal, veto_until, busy_until, counter,
                            drift_veto, scaledown, dead_time, n)
           calls == RunCalls(WireEventCalls(prev_event, event, n), box.calls)
       IN /\ \E nxt \in nexts[src] :
               /\ generator' = Advance(generator, i, nxt)
               /\ sources' = IF nxt = None THEN sources
                             ELSE [sources EXCEPT ![src.id] = Append(@, nxt[1])]
          /\ merged' = Append(merged, event)
          /\ prev_event' = Some(event)
          /\ mlu' = res.state
          /\ veto_until' = box.veto_until
          /\ busy_until' = box.busy_until
          /\ counter' = box.counter
          /\ observer' = observer \o calls
          /\ window' = IF res.state.tag # "Accumulate" THEN << >>
                       ELSE IF mlu.tag = "Accumulate" /\ event.time < mlu.stop_time
                       THEN Append(window, n)
                       ELSE << n >>
          /\ step' = [iter |-> n, event |-> event, generator |-> generator,
                      mlu |-> mlu, window |-> window, signal |-> res.signal,
                      veto_until |-> veto_until, busy_until |-> busy_until,
                      counter |-> counter, calls |-> calls]
    /\ UNCHANGED << pc, nreg, config, lens, textio >>

\* the sources the scheduler can select
Live == { generator[k] : k \in 1..Len(generator) }

RunStep(pats) == LoopBody(MaxPulls, [src \in Live |-> NextEvents(src, pats)])

RunTrgStep == LoopBody(MaxTrgPulls, [src \in Live |-> TrgNextEvents(src)])

\* mutant: the observer is returned without the flush of the pending event
RunFlushNoFlush ==
    /\ pc = "run"
    /\ generator = << >>
    /\ pc' = "done"
    /\ UNCHANGED << nreg, generator, mlu, config, trgbox, prev_event, observer,
                    sources, lens, merged, window, step, textio >>

\* mutant: at the end of the run the open window is decided too
RunFlushDecides ==
    /\ pc = "run"
    /\ generator = << >>
    /\ observer' = observer \o
                   (IF prev_event # None
                    THEN << Call("on_wire_event", prev_event[1], Len(merged)) >>
                    ELSE << >>) \o
                   (IF mlu.tag = "Accumulate" /\ Contains(table, mlu.cumulative)
                    THEN << Call("on_trg_in", TrgSignal(mlu.stop_time), Len(merged) + 1),
                            Call("on_trg_out", TrgSignal(mlu.stop_time), Len(merged) + 1) >>
                    ELSE << >>)
    /\ pc' = "done"
    /\ UNCHANGED << nreg, generator, mlu, config, trgbox, prev_event, sources, lens,
                    merged, window, step, textio >>

\* the merged sequence is exhausted: flush the pending event and return the observer
RunFlush ==
    /\ pc = "run"
    /\ generator = << >>
    /\ observer' = observer \o
                   (IF prev_event # None
                    THEN << Call("on_wire_event", prev_event[1], Len(merged)) >>
                    ELSE << >>)
    /\ pc' = "done"
    /\ UNCHANGED << nreg, generator, mlu, config, trgbox, prev_event, sources, lens,
                    merged, window, step, textio >>

Next == AddGenerator(MaxGens, FALSE, Patterns) \/ Build \/ RunStep(Patterns) \/ RunFlush

Spec == Init /\ [][Next]_vars

NextMerge ==
    AddGenerator(MaxMergeGens, TRUE, OnePattern) \/ Build \/ RunStep(OnePattern) \/ RunFlush

SpecMerge == InitMerge /\ [][NextMerge]_vars

\* the World of the tests
InitTrg == InitWith({1}, {1}, {{1}}, TrgDriftVetos, TrgScaledowns, TrgDeadTimes)

NextTrg == AddTrgGenerator \/ Build \/ RunTrgStep \/ RunFlush

SpecTrg == InitTrg /\ [][NextTrg]_vars

\* run() is one sequential loop: once called, it takes its next step
SpecMergeFair ==
    SpecMerge /\ WF_vars(RunStep(OnePattern)) /\ WF_vars(RunFlush)


(***************************************************************************)
(* The text format of a LookupTable (mlu.rs: Display and FromStr).         *)
(* A text is a sequence of characters.                                     *)
(***************************************************************************)
\* number of wires of a pattern (u16)
WIRES == 16
\* number of wire patterns
TABLE_SIZE == 65536
\* the patterns of the tables that are written and read back whole: those of the
\* tests (0, 0x8e61, 0xffff), and 1, 0x8000, 0x8001 for the two ends of a diagram
SamplePatterns == {0, 1, 32768, 32769, 36449, 65535}
\* the characters one character of a line may be damaged into
DamageChars == {".", "X", "1", " "}

RECURSIVE Pow2(_)
Pow2(i) == IF i = 0 THEN 1 ELSE 2 * Pow2(i - 1)
Bit(n, i) == (n \div Pow2(i)) % 2 = 1
\* n ^ (1 << i)
FlipBit(n, i) == IF Bit(n, i) THEN n - Pow2(i) ELSE n + Pow2(i)

\* the wires from i on, wire j moved to wire WIRES - 1 - j
RECURSIVE ReverseFrom(_, _)
ReverseFrom(n, i) ==
    IF i = WIRES THEN 0
    ELSE (IF Bit(n, i) THEN Pow2(WIRES - 1 - i) ELSE 0) + ReverseFrom(n, i + 1)

\* the set wires from i on
RECURSIVE OnesFrom(_, _)
OnesFrom(n, i) ==
    IF i = WIRES THEN 0 ELSE (IF Bit(n, i) THEN 1 ELSE 0) + OnesFrom(n, i + 1)

\* mutant: the bits are not reversed
reverse_bits_not(n) == n

\* u16::reverse_bits
reverse_bits(n) == ReverseFrom(n, 0)

\* u16::count_ones
count_ones(n) == OnesFrom(n, 0)

\* format!("{:016b}", n): the most significant bit first
Binary16(n) == [k \in 1..WIRES |-> IF Bit(n, WIRES - k) THEN "1" ELSE "0"]

\* str::replace of one character by another
Replace(str, from, to) == [k \in 1..Len(str) |-> IF str[k] = from THEN to ELSE str[k]]

Digit(d) == << "0", "1", "2", "3", "4", "5", "6", "7", "8", "9",
               "a", "b", "c", "d", "e", "f" >>[d + 1]

\* format!("{}", k) of an unsigned number
RECURSIVE Decimal(_)
Decimal(k) == IF k < 10 THEN << Digit(k) >> ELSE Decimal(k \div 10) \o << Digit(k % 10) >>

\* format!("{n:04x}")
RECURSIVE Hex(_, _)
Hex(n, width) ==
    IF width = 0 THEN (IF n = 0 THEN << >> ELSE Hex(n \div 16, 0) \o << Digit(n % 16) >>)
    ELSE Hex(n \div 16, width - 1) \o << Digit(n % 16) >>

bit_pattern_string(n) == Replace(Replace(Binary16(reverse_bits(n)), "0", "."), "1", "X")

bits_string(n) == Decimal(count_ones(n)) \o << " ", "b", "i", "t", "s" >>

\* the loop of clusters_string from wire i on
RECURSIVE ClustersLoop(_, _, _, _)
ClustersLoop(n, i, count, in_cluster) ==
    IF i = WIRES THEN [count |-> count, in_cluster |-> in_cluster]
    ELSE IF Bit(n, i)
         THEN ClustersLoop(n, i + 1, IF in_cluster THEN count ELSE count + 1, TRUE)
         ELSE ClustersLoop(n, i + 1, count, FALSE)

\* mutant: the pattern is read as a line, not as a ring
ClusterCountLine(n) == ClustersLoop(n, 0, 0, FALSE).count

\* the count of clusters_string
ClusterCount(n) ==
    LET end == ClustersLoop(n, 0, 0, Bit(n, WIRES - 1))
    IN  IF end.count = 0 /\ end.in_cluster THEN 1 ELSE end.count

clusters_string(n) ==
    Decimal(ClusterCount(n)) \o << " ", "c", "l", "u", "s", "t", "e", "r", "s" >>

\* the text after "0x.... 1 " in the line of n
Trailing(n) ==
    bit_pattern_string(n) \o << ",", " " >> \o bits_string(n) \o << ",", " " >>
        \o clusters_string(n)

\* one line of Display
Line(n) == << "0", "x" >> \o Hex(n, 4) \o << " ", "1", " " >> \o Trailing(n)

\* the present patterns in the order of the array
RECURSIVE Ascending(_)
Ascending(t) ==
    IF t = {} THEN << >>
    ELSE LET n == CHOOSE m \in t : \A o \in t : m <= o
         IN  << n >> \o Ascending(t \ {n})

\* mutant: the lines follow each other with nothing between
RECURSIVE JoinLinesBare(_)
JoinLinesBare(lines) ==
    IF lines = << >> THEN << >> ELSE Head(lines) \o JoinLinesBare(Tail(lines))

\* [String]::join("\n")
RECURSIVE JoinLines(_)
JoinLines(lines) ==
    IF lines = << >> THEN << >>
    ELSE IF Len(lines) = 1 THEN lines[1]
    ELSE Head(lines) \o << "\n" >> \o JoinLines(Tail(lines))

\* <LookupTable as Display>::fmt
to_string(t) ==
    LET present == Ascending(t)
    IN  JoinLines([k \in 1..Len(present) |-> Line(present[k])])

\* a parser's result: whether it matched, what it read, and the input left
Matched(value, rest) == [ok |-> TRUE, value |-> value, rest |-> rest]
Failed(input) == [ok |-> FALSE, value |-> 0, rest |-> input]

\* a literal as a parser
Literal(lit, input) ==
    IF Len(input) >= Len(lit) /\ SubSeq(input, 1, Len(lit)) = lit
    THEN Matched(0, SubSeq(input, Len(lit) + 1, Len(input)))
    ELSE Failed(input)

\* char::to_digit(16), -1 for a character that is no hexadecimal digit
HexDigit(ch) ==
    IF \E d \in 0..15 : Digit(d) = ch THEN CHOOSE d \in 0..15 : Digit(d) = ch
    ELSE IF ch = "A" THEN 10 ELSE IF ch = "B" THEN 11 ELSE IF ch = "C" THEN 12
    ELSE IF ch = "D" THEN 13 ELSE IF ch = "E" THEN 14 ELSE IF ch = "F" THEN 15
    ELSE -1

\* the number of hexadecimal digits input starts with
RECURSIVE HexPrefix(_)
HexPrefix(input) ==
    IF input = << >> \/ HexDigit(Head(input)) < 0 THEN 0 ELSE 1 + HexPrefix(Tail(input))

RECURSIVE HexValue(_)
HexValue(digits) ==
    IF digits = << >> THEN 0
    ELSE 16 * HexValue(SubSeq(digits, 1, Len(digits) - 1)) + HexDigit(digits[Len(digits)])

\* winnow::ascii::hex_uint::<u16>: one to four digits of either case
hex_uint(input) ==
    LET len == HexPrefix(input)
    IN  IF len = 0 \/ len > 4 THEN Failed(input)
        ELSE Matched(HexValue(SubSeq(input, 1, len)), SubSeq(input, len + 1, Len(input)))

\* delimited("0x", hex_uint, " 1 ")
LineHead(input) ==
    LET open == Literal(<< "0", "x" >>, input)
        n == hex_uint(open.rest)
        close == Literal(<< " ", "1", " " >>, n.rest)
    IN  IF open.ok /\ n.ok /\ close.ok THEN Matched(n.value, close.rest) ELSE Failed(input)

\* mutant: the text after the hexadecimal value is skipped, not compared
parse_line_unchecked(input) ==
    LET head == LineHead(input)
        IsNewline(k) == head.rest[k] = "\n"
        stop == IF \E k \in 1..Len(head.rest) : IsNewline(k)
                THEN CHOOSE k \in 1..Len(head.rest) :
                        IsNewline(k) /\ \A j \in 1..(k - 1) : ~IsNewline(j)
                ELSE Len(head.rest) + 1
    IN  IF head.ok THEN Matched(head.value, SubSeq(head.rest, stop, Len(head.rest)))
        ELSE Failed(input)

parse_line(input) ==
    LET head == LineHead(input)
        tail == Literal(Trailing(head.value), head.rest)
    IN  IF head.ok /\ tail.ok THEN Matched(head.value, tail.rest) ELSE Failed(input)

\* separated(0.., parse_line, newline) after its first line: a newline and a line,
\* again and again; a newline that no line follows is left in the input
RECURSIVE MoreLines(_, _)
MoreLines(found, input) ==
    LET sep == Literal(<< "\n" >>, input)
        line == parse_line(sep.rest)
    IN  IF sep.ok /\ line.ok THEN MoreLines(found \cup {line.value}, line.rest)
        ELSE Matched(found, input)

\* separated(0.., parse_line.map(|n| inner[n] = true), newline)
SeparatedLines(input) ==
    LET line == parse_line(input)
    IN  IF line.ok THEN MoreLines({line.value}, line.rest) ELSE Matched({}, input)

Ok(t) == [ok |-> TRUE, table |-> t]
Err == [ok |-> FALSE, table |-> {}]

\* <LookupTable as FromStr>::from_str: terminated(.., opt(newline)).parse(input)
from_str(input) ==
    LET lines == SeparatedLines(input)
        last == Literal(<< "\n" >>, lines.rest)
        rest == IF last.ok THEN last.rest ELSE lines.rest
    IN  IF rest = << >> THEN Ok(lines.value) ELSE Err

\* the lines of a text
RECURSIVE SplitLines(_)
SplitLines(str) ==
    IF \E k \in 1..Len(str) : str[k] = "\n"
    THEN LET k == CHOOSE i \in 1..Len(str) :
                     str[i] = "\n" /\ \A j \in 1..(i - 1) : str[j] # "\n"
         IN  << SubSeq(str, 1, k - 1) >> \o SplitLines(SubSeq(str, k + 1, Len(str)))
    ELSE << str >>

\* a table is made, written, perhaps damaged in one place, and read
InitText(tables) ==
    /\ pc = "table"
    /\ table \in tables
    /\ text = << >>
    /\ parsed = None
    /\ nreg = 0
    /\ generator = << >>
    /\ mlu = Idle
    /\ prompt_window = 1
    /\ wait_gate = 1
    /\ drift_veto = 1
    /\ scaledown = 0
    /\ dead_time = 1
    /\ veto_until = None
    /\ busy_until = None
    /\ counter = 0
    /\ prev_event = None
    /\ observer = << >>
    /\ sources = << >>
    /\ lens = << >>
    /\ merged = << >>
    /\ window = << >>
    /\ step = NoStep

world == << nreg, generator, mlu, config, trgbox, prev_event, observer, sources, lens,
            merged, window, step >>

\* table.to_string()
DisplayTable ==
    /\ pc = "table"
    /\ text' = to_string(table)
    /\ pc' = "text"
    /\ UNCHANGED << parsed, world >>

\* one line of the text gets the hexadecimal value of its pattern with one bit
\* changed; the rest of the line is kept
DamageHex ==
    /\ pc = "text"
    /\ \E k \in 1..Cardinality(table) : \E b \in 0..(WIRES - 1) :
          LET lines == SplitLines(text)
              n == Ascending(table)[k]
              line == << "0", "x" >> \o Hex(FlipBit(n, b), 4)
                          \o SubSeq(lines[k], 7, Len(lines[k]))
          IN  text' = JoinLines([lines EXCEPT ![k] = line])
    /\ pc' = "damaged"
    /\ UNCHANGED << parsed, world >>

\* one character after the hexadecimal value of one line is changed
DamageTrailing ==
    /\ pc = "text"
    /\ \E k \in 1..Cardinality(table) :
          LET lines == SplitLines(text)
          IN  \E p \in 10..Len(lines[k]) : \E ch \in DamageChars \ {lines[k][p]} :
                 text' = JoinLines([lines EXCEPT ![k] = [lines[k] EXCEPT ![p] = ch]])
    /\ pc' = "damaged"
    /\ UNCHANGED << parsed, world >>

\* LookupTable::from_str(&text)
FromStr ==
    /\ pc \in {"text", "damaged"}
    /\ parsed' = Some(from_str(text))
    /\ pc' = "parsed"
    /\ UNCHANGED << text, world >>

\* tables of up to MaxLines of the sample patterns
TextTables == { t \in SUBSET SamplePatterns : Cardinality(t) <= MaxLines }
\* the tables of one pattern, for every pattern
PatternTables == { {n} : n \in 0..(TABLE_SIZE - 1) }

NextText == DisplayTable \/ DamageHex \/ DamageTrailing \/ FromStr
SpecText == InitText(TextTables) /\ [][NextText]_vars

NextPattern == DisplayTable \/ FromStr
SpecPattern == InitText(PatternTables) /\ [][NextPattern]_vars

(***************************************************************************)
(* The observer's log.                                                     *)
(***************************************************************************)
IsWire(c) == c.cb = "on_wire_event"
IsTrg(c) == c.cb # "on_wire_event"
CallTime(c) == c.arg.time

\* the position of the last on_wire_event before position i, 0 when there is none
RECURSIVE LastWireBefore(_)
LastWireBefore(i) ==
    IF i <= 1 THEN 0
    ELSE IF IsWire(observer[i - 1]) THEN i - 1 ELSE LastWireBefore(i - 1)

\* the position of the first on_wire_event after position i, 0 when there is none
RECURSIVE FirstWireAfter(_)
FirstWireAfter(i) ==
    IF i >= Len(observer) THEN 0
    ELSE IF IsWire(observer[i + 1]) THEN i + 1 ELSE FirstWireAfter(i + 1)

\* the events passed to on_wire_event, in order
RECURSIVE WireArgs(_)
WireArgs(log) ==
    IF log = << >> THEN << >>
    ELSE (IF IsWire(Head(log)) THEN << Head(log).arg >> ELSE << >>) \o WireArgs(Tail(log))

(***************************************************************************)
(* C1: whenever on_trg_in is invoked with a signal of time t, on_wire_event *)
(* has been invoked before, and the event most recently passed to it has a *)
(* time strictly less than t.                                              *)
(***************************************************************************)
C1_TrgInAfterEarlierWireEvent ==
    \A i \in 1..Len(observer) :
        observer[i].cb = "on_trg_in" =>
            /\ LastWireBefore(i) # 0
            /\ CallTime(observer[LastWireBefore(i)]) < CallTime(observer[i])

\* a candidate was reported while a later event, at or after its time, was pending
C1_Witness ==
    /\ step.iter > 1
    /\ step.signal # None
    /\ \E i \in 1..Len(observer) : observer[i].cb = "on_trg_in"
    /\ step.event.time >= step.signal[1].time

(***************************************************************************)
(* C2: the callbacks of the candidate produced while event N is processed  *)
(* fire after on_wire_event for event N-1 and before on_wire_event for     *)
(* event N, and the whole callback sequence is non-decreasing in time.     *)
(***************************************************************************)
C2_CandidateBetweenWireEvents ==
    /\ \A i \in 1..Len(observer) :
          IsWire(observer[i]) => observer[i].arg = merged[observer[i].iter]
    /\ \A i \in 1..Len(observer) :
          IsTrg(observer[i]) =>
             /\ LastWireBefore(i) # 0
             /\ observer[LastWireBefore(i)].iter = observer[i].iter - 1
             /\ FirstWireAfter(i) # 0 => observer[FirstWireAfter(i)].iter = observer[i].iter
    /\ \A i \in 1..Len(observer) : \A j \in i..Len(observer) :
          CallTime(observer[i]) <= CallTime(observer[j])

\* the run is over, and a candidate's callbacks lie between two wire events of
\* different times
C2_Witness ==
    /\ pc = "done"
    /\ \E i \in 1..Len(observer) :
          /\ observer[i].cb = "on_trg_in"
          /\ i + 2 <= Len(observer)
          /\ IsTrg(observer[i + 1])
          /\ IsWire(observer[i + 2])
          /\ CallTime(observer[i - 1]) < CallTime(observer[i + 2])

(***************************************************************************)
(* C3: on_wire_event is invoked exactly once for every merged event, in    *)
(* merged order; the last event is reported by the flush after the         *)
(* sequence is exhausted, and nothing is reported when there are no events.*)
(***************************************************************************)
C3_EveryEventReportedOnce ==
    /\ pc = "run" => WireArgs(observer) \o prev_event = merged
    /\ pc = "done" =>
          /\ WireArgs(observer) = merged
          /\ merged # << >> =>
                /\ observer[Len(observer)] =
                      Call("on_wire_event", merged[Len(merged)], Len(merged))
                /\ prev_event = Some(merged[Len(merged)])
          /\ merged = << >> => observer = << >>

\* a run over several events is over, the last one reported by the flush
C3_Witness ==
    /\ pc = "done"
    /\ Len(merged) >= 3
    /\ IsWire(observer[Len(observer)])
    /\ Len(WireArgs(observer)) = Len(merged)


(***************************************************************************)
(* The merged sequence and the sources.                                    *)
(***************************************************************************)
\* the events of seq that came from source id, in order
FromSource(seq, id) == SelectSeq(seq, LAMBDA e : e.source = id)

\* the peeked event of source id, while it is live
Peeked(id) ==
    LET live == { k \in 1..Len(generator) : generator[k].id = id }
    IN  IF live = {} THEN << >> ELSE << generator[CHOOSE k \in live : TRUE].head >>

SetMin(S) == CHOOSE x \in S : \A y \in S : x <= y

(***************************************************************************)
(* C4: with every source non-decreasing in time, the sequence of events    *)
(* pulled from the merge scheduler is non-decreasing in time.              *)
(***************************************************************************)
C4_MergedNonDecreasing ==
    \A i \in 1..Len(merged) : \A j \in i..Len(merged) :
        merged[i].time <= merged[j].time

\* three or more events were merged, a later-registered source yielding before an
\* earlier-registered one, and time advanced
C4_Witness ==
    /\ Len(merged) >= 3
    /\ \E i \in 1..(Len(merged) - 1) : merged[i].source > merged[i + 1].source
    /\ merged[1].time < merged[Len(merged)].time

(***************************************************************************)
(* C5: the merged sequence of finite sources is a permutation of the union *)
(* of the sources' events, no event lost or duplicated, in which the       *)
(* events of each source appear in that source's own order.                *)
(***************************************************************************)
C5_MergedIsStablePermutation ==
    /\ \A i \in 1..Len(merged) : merged[i].source \in 1..nreg
    /\ \A id \in 1..nreg : FromSource(merged, id) \o Peeked(id) = sources[id]
    /\ generator = << >> =>
          \A id \in 1..nreg :
             /\ FromSource(merged, id) = sources[id]
             /\ lens[id] # Infinite => Len(sources[id]) = lens[id]

\* the run is over; two sources of two events each were interleaved
C5_Witness ==
    /\ pc = "done"
    /\ \E a, b \in 1..nreg :
          /\ a < b
          /\ Len(sources[a]) >= 2
          /\ Len(sources[b]) >= 2
          /\ \E i \in 1..(Len(merged) - 2) :
                /\ merged[i].source = a
                /\ merged[i + 1].source = b
                /\ merged[i + 2].source = a

(***************************************************************************)
(* C6: when the peeked events of two or more live sources have the equal   *)
(* minimum time, the event of the earliest-registered of them is returned  *)
(* first.                                                                  *)
(***************************************************************************)
C6_TieGoesToEarliestRegistered ==
    step.iter > 0 =>
        LET g == step.generator
            m == SetMin({ g[k].head.time : k \in 1..Len(g) })
            tied == { k \in 1..Len(g) : g[k].head.time = m }
            first == SetMin({ g[k].id : k \in tied })
        IN  Cardinality(tied) >= 2 =>
               /\ step.event.source = first
               /\ \E k \in tied : g[k].id = first /\ step.event = g[k].head
               /\ merged[Len(merged)] = step.event

\* the second and third registered sources were tied below the first, and the
\* second one's event was returned
C6_Witness ==
    /\ step.iter > 0
    /\ Len(step.generator) = 3
    /\ step.generator[2].head.time = step.generator[3].head.time
    /\ step.generator[2].head.time < step.generator[1].head.time
    /\ step.event.source = step.generator[2].id


(***************************************************************************)
(* C7: if every registered source is finite, the merged sequence is        *)
(* eventually exhausted and World::run returns the observer; with an       *)
(* infinite source registered the sequence is never exhausted and run      *)
(* never returns.                                                          *)
(***************************************************************************)
AllFinite == \A id \in 1..nreg : lens[id] # Infinite

C7_RunTerminatesIffSourcesFinite ==
    /\ (pc = "run" /\ AllFinite) ~> (pc = "done" /\ generator = << >>)
    /\ [](~AllFinite => (pc # "done" /\ (pc = "run" => generator # << >>)))

\* a run over three finite sources has returned after all their events
C7_Witness ==
    /\ pc = "done"
    /\ Len(generator) = 0
    /\ Cardinality({ id \in 1..nreg : lens[id] > 0 }) = 3
    /\ Len(merged) = MaxPulls

\* a run with an infinite source is still in its loop after MaxPulls events
C7_WitnessInfinite ==
    /\ pc = "run"
    /\ ~AllFinite
    /\ Len(merged) = MaxPulls


(***************************************************************************)
(* The last iteration of the loop.                                         *)
(***************************************************************************)
\* the window that was open before the iteration was closed by its event
Closed ==
    /\ step.iter > 0
    /\ step.mlu.tag = "Accumulate"
    /\ step.event.time >= step.mlu.stop_time

\* the OR of the patterns of the merged events of the given indices
RECURSIVE OrOfEvents(_)
OrOfEvents(idx) ==
    IF idx = << >> THEN 0
    ELSE BitOr(merged[Head(idx)].wire_pattern, OrOfEvents(Tail(idx)))

\* the candidate's callbacks of the iteration
TrgCalls == SelectSeq(step.calls, IsTrg)

C9_SignalIffCumulativeInTable ==
    Closed =>
        /\ step.mlu.cumulative = OrOfEvents(step.window)
        /\ step.signal # None <=> step.mlu.cumulative \in table
        /\ step.signal # None => step.signal = Some(TrgSignal(step.mlu.stop_time))

\* a window whose two events OR to a pattern of the table that neither is alone was
\* closed by an event whose own pattern is not in the table
C9_Witness ==
    /\ Closed
    /\ step.signal # None
    /\ Len(step.window) = 2
    /\ step.mlu.cumulative = 3
    /\ merged[step.window[1]].wire_pattern = 2
    /\ step.event.wire_pattern \notin table

\* a window whose pattern is not in the table was closed by an event whose pattern is
C9_WitnessNone ==
    /\ Closed
    /\ step.signal = None
    /\ step.mlu.cumulative \notin table
    /\ step.event.wire_pattern \in table

(***************************************************************************)
(* C10: a candidate is drift-vetoed exactly when veto_until exists and the *)
(* candidate's time is <= it; a vetoed candidate gets on_trg_in and        *)
(* on_trg_drift_veto and no other callback, and veto_until, busy_until     *)
(* and the scaledown counter stay as they were.                            *)
(***************************************************************************)
C10_DriftVetoStage ==
    (step.iter > 0 /\ step.signal # None) =>
        LET sig == step.signal[1]
            vetoed == step.veto_until # None /\ sig.time <= step.veto_until[1]
        IN  /\ vetoed <=> \E k \in 1..Len(TrgCalls) : TrgCalls[k].cb = "on_trg_drift_veto"
            /\ vetoed =>
                  /\ TrgCalls = << Call("on_trg_in", sig, step.iter),
                                   Call("on_trg_drift_veto", sig, step.iter) >>
                  /\ veto_until = step.veto_until
                  /\ busy_until = step.busy_until
                  /\ counter = step.counter

\* a candidate exactly at the watermark was vetoed while the counter stood at 1
C10_Witness ==
    /\ step.iter > 0
    /\ step.signal # None
    /\ step.veto_until = Some(step.signal[1].time)
    /\ step.counter = 1
    /\ counter = 1
    /\ TrgCalls[Len(TrgCalls)].cb = "on_trg_drift_veto"

\* a candidate inside the veto was vetoed after an accepted output
C10_WitnessBusy ==
    /\ step.iter > 0
    /\ step.signal # None
    /\ step.busy_until # None
    /\ busy_until = step.busy_until
    /\ TrgCalls[Len(TrgCalls)].cb = "on_trg_drift_veto"

\* a candidate past the watermark went on to the scaledown stage
C10_WitnessCleared ==
    /\ step.iter > 0
    /\ step.signal # None
    /\ step.veto_until # None
    /\ step.signal[1].time > step.veto_until[1]
    /\ veto_until # step.veto_until

\* the candidates of the log that cleared the drift veto: each got exactly one of
\* the three later verdicts
IsCleared(c) == c.cb \in {"on_trg_scaledown", "on_trg_dead_time", "on_trg_out"}
ClearedCalls == SelectSeq(observer, IsCleared)
IsVerdict(c, cb) == c.cb = cb
Candidate == step.iter > 0 /\ step.signal # None
Vetoed == step.veto_until # None /\ step.signal[1].time <= step.veto_until[1]
LastCb == TrgCalls[Len(TrgCalls)].cb

(***************************************************************************)
(* C11: every candidate that is not drift-vetoed sets veto_until to its    *)
(* time + drift_veto, also when the scaledown or the dead time suppresses  *)
(* it afterwards; so any two candidates that cleared the drift veto are    *)
(* more than drift_veto apart.                                             *)
(***************************************************************************)
C11_ClearedMovesVetoUntil ==
    /\ (Candidate /\ ~Vetoed) =>
           /\ veto_until = Some(step.signal[1].time + drift_veto)
           /\ LastCb \in {"on_trg_scaledown", "on_trg_dead_time", "on_trg_out"}
    /\ \A i, j \in 1..Len(ClearedCalls) :
           i < j => CallTime(ClearedCalls[j]) - CallTime(ClearedCalls[i]) > drift_veto

\* a candidate was vetoed against the watermark that a candidate suppressed by the
\* scaledown had set
C11_Witness ==
    /\ Candidate
    /\ Vetoed
    /\ Len(ClearedCalls) = 1
    /\ ClearedCalls[1].cb = "on_trg_scaledown"
    /\ step.veto_until = Some(CallTime(ClearedCalls[1]) + drift_veto)

\* a candidate suppressed by the dead time moved the watermark
C11_WitnessDeadTime ==
    /\ Candidate
    /\ LastCb = "on_trg_dead_time"
    /\ veto_until = Some(step.signal[1].time + drift_veto)
    /\ veto_until # step.veto_until

\* the on_trg_out calls that a step added to the log
OutCalls(before, after) ==
    LET IsOut(c) == c.cb = "on_trg_out"
    IN  SelectSeq(SubSeq(after, Len(before) + 1, Len(after)), IsOut)

(***************************************************************************)
(* C12: busy_until changes only in a step in which on_trg_out fires, and   *)
(* then becomes the accepted signal's time + dead_time; a step whose       *)
(* candidate is vetoed, scaled down or suppressed by the dead time, or     *)
(* that has no candidate, leaves busy_until as it was.                     *)
(***************************************************************************)
C12_BusyUntilOnlyOnTrgOut ==
    [][LET outs == OutCalls(observer, observer')
       IN  /\ Len(outs) <= 1
           /\ busy_until' # busy_until <=> outs # << >>
           /\ outs # << >> => busy_until' = Some(CallTime(outs[1]) + dead_time)]_vars

\* a candidate suppressed by the dead time left the busy period of the accepted
\* output before it as it was
C12_Witness ==
    /\ Candidate
    /\ LastCb = "on_trg_dead_time"
    /\ step.busy_until # None
    /\ busy_until = step.busy_until
    /\ \E k \in 1..Len(observer) :
          /\ observer[k].cb = "on_trg_out"
          /\ busy_until = Some(CallTime(observer[k]) + dead_time)

\* so did a candidate suppressed by the scaledown
C12_WitnessScaledown ==
    /\ Candidate
    /\ LastCb = "on_trg_scaledown"
    /\ step.busy_until # None
    /\ busy_until = step.busy_until

(***************************************************************************)
(* C13: with scaledown = N the candidates that clear the drift veto are    *)
(* handled in groups of N + 1: the first N of a group get on_trg_scaledown *)
(* and the (N+1)-th goes on to the dead-time stage. With N = 0 every one   *)
(* goes on; with N = 1 the first is suppressed and every other goes on.    *)
(***************************************************************************)
C13_ScaledownCadence ==
    /\ \A k \in 1..Len(ClearedCalls) :
          ClearedCalls[k].cb = "on_trg_scaledown" <=> k % (scaledown + 1) # 0
    /\ counter = Len(ClearedCalls) % (scaledown + 1)

\* scaledown 1: four cleared candidates, the second and the fourth went on, one of
\* them into the dead time
C13_Witness ==
    /\ scaledown = 1
    /\ Len(ClearedCalls) = 4
    /\ ClearedCalls[1].cb = "on_trg_scaledown"
    /\ ClearedCalls[2].cb = "on_trg_out"
    /\ ClearedCalls[3].cb = "on_trg_scaledown"
    /\ ClearedCalls[4].cb = "on_trg_dead_time"

\* scaledown 2: the third cleared candidate went on, the two after it did not
C13_WitnessTwo ==
    /\ scaledown = 2
    /\ Len(ClearedCalls) = 5
    /\ ClearedCalls[3].cb = "on_trg_out"
    /\ ClearedCalls[5].cb = "on_trg_scaledown"

\* scaledown 0: every cleared candidate went on
C13_WitnessZero ==
    /\ scaledown = 0
    /\ Len(ClearedCalls) = 5
    /\ \E k \in 1..Len(observer) : observer[k].cb = "on_trg_dead_time"

\* a candidate that cleared the drift veto and met counter == scaledown
Passing == Candidate /\ ~Vetoed /\ step.counter = scaledown
\* the callbacks the sentence of C14 leaves room for a notification in: those that
\* are neither on_trg_in nor the verdicts of the other two stages
ScaledownStageCalls ==
    LET AtStage(c) == c.cb \notin {"on_trg_in", "on_trg_drift_veto",
                                    "on_trg_dead_time", "on_trg_out"}
    IN  SelectSeq(TrgCalls, AtStage)

\* C14 as the specification states it: a candidate that meets counter == scaledown
\* is reported to the observer by the scaledown stage, then the counter is 0 and
\* the dead-time stage gives its verdict
C14_SurvivedNotification ==
    Passing =>
        /\ ScaledownStageCalls # << >>
        /\ counter = 0
        /\ LastCb \in {"on_trg_dead_time", "on_trg_out"}

(***************************************************************************)
(* C14 (amended): when a candidate arrives at the scaledown stage with     *)
(* counter == scaledown, that stage calls no observer hook for it; the     *)
(* counter is reset to 0 and the candidate goes on to the dead-time stage, *)
(* so its callbacks are on_trg_in and then on_trg_dead_time or on_trg_out. *)
(***************************************************************************)
C14_ScaledownPassIsSilent ==
    Passing =>
        /\ ScaledownStageCalls = << >>
        /\ counter = 0
        /\ Len(TrgCalls) = 2
        /\ TrgCalls[1] = Call("on_trg_in", step.signal[1], step.iter)
        /\ TrgCalls[2].arg = step.signal[1]
        /\ TrgCalls[2].cb =
              IF step.busy_until # None /\ step.signal[1].time <= step.busy_until[1]
              THEN "on_trg_dead_time" ELSE "on_trg_out"

\* with scaledown 1 a candidate met counter = 1: the counter went back to 0 and
\* on_trg_out followed on_trg_in directly
C14_Witness ==
    /\ Passing
    /\ scaledown = 1
    /\ step.counter = 1
    /\ counter = 0
    /\ LastCb = "on_trg_out"

\* the accepted outputs of the log, and those accepted before the last step
IsTrgOut(c) == c.cb = "on_trg_out"
TrgOuts == SelectSeq(observer, IsTrgOut)
EarlierTrgOuts ==
    LET Earlier(c) == c.cb = "on_trg_out" /\ c.iter < step.iter
    IN  SelectSeq(observer, Earlier)

(***************************************************************************)
(* C15: any two signals given to on_trg_out differ in time by strictly     *)
(* more than dead_time; a candidate that reaches the dead-time stage with  *)
(* time <= (time of the last accepted output) + dead_time gets             *)
(* on_trg_dead_time and is not given to on_trg_out.                        *)
(***************************************************************************)
C15_OutputsMoreThanDeadTimeApart ==
    /\ \A i, j \in 1..Len(TrgOuts) :
          i < j => CallTime(TrgOuts[j]) - CallTime(TrgOuts[i]) > dead_time
    /\ Passing =>
          LET n == Len(EarlierTrgOuts)
              dead == n > 0 /\ step.signal[1].time
                                  <= CallTime(EarlierTrgOuts[n]) + dead_time
          IN  /\ dead => LastCb = "on_trg_dead_time"
              /\ ~dead => LastCb = "on_trg_out"
              /\ \A k \in 1..Len(TrgCalls) : dead => TrgCalls[k].cb # "on_trg_out"

\* a candidate exactly dead_time after the last accepted output reached the
\* dead-time stage and was suppressed
C15_Witness ==
    /\ Passing
    /\ EarlierTrgOuts # << >>
    /\ step.signal[1].time
          = CallTime(EarlierTrgOuts[Len(EarlierTrgOuts)]) + dead_time
    /\ LastCb = "on_trg_dead_time"

\* three outputs were accepted, two of them dead_time + 1 apart
C15_WitnessOutputs ==
    /\ Len(TrgOuts) = 3
    /\ CallTime(TrgOuts[2]) - CallTime(TrgOuts[1]) = dead_time + 1

\* the times of the signals that the log's calls of one hook were given
TimesOf(cb) ==
    LET Is(c) == c.cb = cb
        calls == SelectSeq(observer, Is)
    IN  [k \in 1..Len(calls) |-> CallTime(calls[k])]
\* the TRG box of tests::world_drift_veto
DriftVetoTest == drift_veto = 5 /\ dead_time = 7 /\ scaledown = 0

\* C16 as the specification states it: with drift_veto 5, dead_time 7, scaledown 0
\* and the candidates 1, 5, 9, 13, 17, on_trg_drift_veto fires for 9 and for 17
C16_VetoesAsStated ==
    (DriftVetoTest /\ TimesOf("on_trg_in") = << 1, 5, 9, 13, 17 >>) =>
        \A t \in {9, 17} :
           \E k \in 1..Len(TimesOf("on_trg_drift_veto")) :
              TimesOf("on_trg_drift_veto")[k] = t

(***************************************************************************)
(* C16 (amended): with drift_veto = 5, dead_time = 7, scaledown = 0,       *)
(* on_trg_drift_veto fires for the candidates at t = 9 and t = 17 when the *)
(* candidates are those of tests::world_drift_veto, t = 5, 9, 13, 17; with *)
(* candidates at t = 1, 5, 9, 13, 17 it fires for those at t = 5 and 13.   *)
(***************************************************************************)
C16_DriftVetoScenario ==
    DriftVetoTest =>
        /\ TimesOf("on_trg_in") = << 5, 9, 13, 17 >> =>
              /\ TimesOf("on_trg_drift_veto") = << 9, 17 >>
              /\ TimesOf("on_trg_out") = << 5, 13 >>
        /\ TimesOf("on_trg_in") = << 1, 5, 9, 13, 17 >> =>
              /\ TimesOf("on_trg_drift_veto") = << 5, 13 >>
              /\ TimesOf("on_trg_out") = << 1, 9, 17 >>

\* the candidates 1, 5, 9, 13, 17 went through the TRG box of the test
C16_Witness ==
    /\ DriftVetoTest
    /\ TimesOf("on_trg_in") = << 1, 5, 9, 13, 17 >>
    /\ pc = "done"

\* the run of tests::world_drift_veto: events at 4, 8, 12, 16, 20
C16_WitnessTest ==
    /\ DriftVetoTest
    /\ TimesOf("on_wire_event") = << 4, 8, 12, 16, 20 >>
    /\ TimesOf("on_trg_in") = << 5, 9, 13, 17 >>
    /\ TimesOf("on_trg_drift_veto") = << 9, 17 >>
    /\ pc = "done"

(***************************************************************************)
(* The text of a lookup table.                                             *)
(***************************************************************************)
\* the text is what to_string wrote: no line of it was damaged
Written == pc \in {"text", "parsed"} /\ text = to_string(table)
\* the lines of the text and the patterns they were written for
TextLines == IF text = << >> THEN << >> ELSE SplitLines(text)
\* the parts of a line: the hexadecimal value, the wire diagram, all after the value
HexOf(line) == HexValue(SubSeq(line, 3, 6))
DiagramOf(line) == SubSeq(line, 10, 9 + WIRES)
TrailingOf(line) == SubSeq(line, 10, Len(line))
EndsWith(str, end) ==
    Len(str) >= Len(end) /\ SubSeq(str, Len(str) - Len(end) + 1, Len(str)) = end

(***************************************************************************)
(* C17: for every table, from_str of the table's to_string succeeds and    *)
(* gives a table equal to the original; the empty table is written as the  *)
(* empty text and read back as the empty table.                            *)
(***************************************************************************)
C17_RoundTrip ==
    /\ (pc = "parsed" /\ text = to_string(table)) => parsed = Some(Ok(table))
    /\ (Written /\ table = {}) => text = << >>
    /\ (Written /\ table # {}) =>
           /\ Len(TextLines) = Cardinality(table)
           /\ { HexOf(TextLines[k]) : k \in 1..Len(TextLines) } = table

\* a table of two patterns was written on two lines and read back
C17_Witness ==
    /\ pc = "parsed"
    /\ table = {0, 36449}
    /\ Len(TextLines) = 2
    /\ text = to_string(table)
    /\ parsed = Some(Ok({0, 36449}))

\* the empty table was written as the empty text and read back
C17_WitnessEmpty ==
    /\ pc = "parsed"
    /\ table = {}
    /\ text = << >>
    /\ parsed = Some(Ok({}))

\* C18 as the specification states it: the leftmost character of the diagram is
\* 'X' iff bit 15 of the pattern is set, the rightmost iff bit 0 is set
C18_DiagramFromBit15 ==
    Written =>
        \A k \in 1..Len(TextLines) :
           LET n == Ascending(table)[k]
               diagram == DiagramOf(TextLines[k])
           IN  /\ diagram[1] = "X" <=> Bit(n, WIRES - 1)
               /\ diagram[WIRES] = "X" <=> Bit(n, 0)

(***************************************************************************)
(* C18 (amended): in each serialized line the 16-character wire diagram    *)
(* renders bit 0 up to bit 15 left-to-right: the leftmost character is 'X' *)
(* iff bit 0 of the pattern is set, the rightmost is 'X' iff bit 15 is     *)
(* set, and every other character is 'X' or '.' for its bit in between.    *)
(***************************************************************************)
C18_DiagramFromBit0 ==
    Written =>
        \A k \in 1..Len(TextLines) :
           LET n == Ascending(table)[k]
               diagram == DiagramOf(TextLines[k])
           IN  /\ Len(diagram) = WIRES
               /\ \A i \in 0..(WIRES - 1) :
                     diagram[i + 1] = IF Bit(n, i) THEN "X" ELSE "."

\* the pattern 1 (bit 0 alone) was written with 'X' leftmost and '.' rightmost
C18_Witness ==
    /\ Written
    /\ table = {1}
    /\ DiagramOf(text)[1] = "X"
    /\ DiagramOf(text)[WIRES] = "."

\* the line of tests::lookup_table_to_string for 0x8e61
C18_WitnessTest ==
    /\ Written
    /\ table = {36449}
    /\ text = << "0", "x", "8", "e", "6", "1", " ", "1", " ", "X", ".", ".",
                 ".", ".", "X", "X", ".", ".", "X", "X", "X", ".", ".", ".",
                 "X", ",", " ", "7", " ", "b", "i", "t", "s", ",", " ", "3",
                 " ", "c", "l", "u", "s", "t", "e", "r", "s" >>

\* the wires at which a run of set wires begins on the ring: those set with the
\* wire before them, bit 15 before bit 0, not set
RunStarts(n) == { i \in 0..(WIRES - 1) : Bit(n, i) /\ ~Bit(n, (i + WIRES - 1) % WIRES) }
\* the maximal runs of set wires on the ring: as many as there are run starts, and
\* the one run without a start when every wire is set
RingRuns(n) == IF \A i \in 0..(WIRES - 1) : Bit(n, i) THEN 1 ELSE Cardinality(RunStarts(n))

(***************************************************************************)
(* C19: for every 16-bit pattern the cluster count written in its line is  *)
(* the number of maximal runs of set bits on the ring of 16 positions in   *)
(* which bit 15 is next to bit 0: 0 for the empty pattern, 1 for the       *)
(* all-set pattern, a run through bit 15 and bit 0 counted once.           *)
(***************************************************************************)
C19_ClusterCountOnRing ==
    Written =>
        \A k \in 1..Len(TextLines) :
           LET n == Ascending(table)[k]
           IN  EndsWith(TextLines[k],
                        << ",", " " >> \o Decimal(RingRuns(n))
                            \o << " ", "c", "l", "u", "s", "t", "e", "r", "s" >>)

\* 0x8e61: the runs {15, 0}, {5, 6}, {9, 10, 11} were written as 3 clusters
C19_Witness ==
    /\ Written
    /\ table = {36449}
    /\ Bit(36449, WIRES - 1) /\ Bit(36449, 0)
    /\ EndsWith(text, << " ", "3", " ", "c", "l", "u", "s", "t", "e", "r", "s" >>)

\* the empty pattern was written with 0 clusters
C19_WitnessEmpty ==
    /\ Written
    /\ table = {0}
    /\ EndsWith(text, << " ", "0", " ", "c", "l", "u", "s", "t", "e", "r", "s" >>)

\* the all-set pattern was written with 1 clusters
C19_WitnessAll ==
    /\ Written
    /\ table = {65535}
    /\ EndsWith(text, << " ", "1", " ", "c", "l", "u", "s", "t", "e", "r", "s" >>)

\* a line whose text after the value is not the text of its hexadecimal value
Inconsistent(line) == TrailingOf(line) # Trailing(HexOf(line))
\* line k carries the value of its pattern with one bit changed, the rest kept
OneBitChanged(k) ==
    LET n == Ascending(table)[k]
    IN  /\ \E b \in 0..(WIRES - 1) : HexOf(TextLines[k]) = FlipBit(n, b)
        /\ TrailingOf(TextLines[k]) = Trailing(n)

(***************************************************************************)
(* C20: from_str fails, and returns no table, whenever a line's text after *)
(* the hexadecimal value differs from the text recomputed from that value; *)
(* a line whose value is changed in one bit while the rest of the line is  *)
(* kept is rejected, also when all other lines are valid.                  *)
(***************************************************************************)
C20_InconsistentLineRejected ==
    pc = "parsed" =>
        /\ (\E k \in 1..Len(TextLines) : Inconsistent(TextLines[k])) => parsed = Some(Err)
        /\ (\E k \in 1..Len(TextLines) : OneBitChanged(k)) => parsed = Some(Err)
        /\ parsed = Some(Err) => ~parsed[1].ok /\ parsed[1].table = {}

\* the second of two lines had one bit of its value changed, the first was valid:
\* no table was returned
C20_Witness ==
    /\ pc = "parsed"
    /\ Len(TextLines) = 2
    /\ ~Inconsistent(TextLines[1])
    /\ OneBitChanged(2)
    /\ parsed = Some(Err)

\* one character of the bit count of a line was changed: no table was returned
C20_WitnessTrailing ==
    /\ pc = "parsed"
    /\ Len(TextLines) = 1
    /\ HexOf(TextLines[1]) \in table
    /\ DiagramOf(TextLines[1]) = bit_pattern_string(HexOf(TextLines[1]))
    /\ Inconsistent(TextLines[1])
    /\ parsed = Some(Err)

(***************************************************************************)
(* The arms of Mlu::process.                                               *)
(***************************************************************************)
\* the last iteration found the MLU in this state
InState(tag) == step.iter > 0 /\ step.mlu.tag = tag
\* p is the OR of the patterns a and b
IsOr(p, a, b) == \A i \in 0..(WIRES - 1) : Bit(p, i) <=> (Bit(a, i) \/ Bit(b, i))

(***************************************************************************)
(* C21: in state Accumulate{stop_time, cumulative} an event with time <    *)
(* stop_time produces no signal, leaves stop_time as it is and replaces    *)
(* cumulative by cumulative OR the event's pattern; an event with time     *)
(* exactly stop_time is not OR-ed into cumulative: it closes the window,   *)
(* whose decision is made on the pattern without it.                       *)
(***************************************************************************)
C21_AccumulateInsideWindow ==
    InState("Accumulate") =>
        /\ step.event.time < step.mlu.stop_time =>
              /\ step.signal = None
              /\ mlu.tag = "Accumulate"
              /\ mlu.stop_time = step.mlu.stop_time
              /\ IsOr(mlu.cumulative, step.mlu.cumulative, step.event.wire_pattern)
        /\ step.event.time = step.mlu.stop_time =>
              /\ mlu.tag = "Wait"
              /\ step.signal # None <=> step.mlu.cumulative \in table
              /\ step.signal # None => step.signal = Some(TrgSignal(step.mlu.stop_time))

\* an event exactly at stop_time, whose pattern would have completed a pattern of
\* the table, closed the window: no signal
C21_Witness ==
    /\ InState("Accumulate")
    /\ step.event.time = step.mlu.stop_time
    /\ step.mlu.cumulative = 2
    /\ step.event.wire_pattern = 1
    /\ table = {1, 3}
    /\ step.signal = None
    /\ mlu.tag = "Wait"

\* an event inside the window added its pattern
C21_WitnessInside ==
    /\ InState("Accumulate")
    /\ step.event.time < step.mlu.stop_time
    /\ step.mlu.cumulative = 1
    /\ mlu.cumulative = 3

\* the indices in merged of a window
Indices(w) == { w[k] : k \in 1..Len(w) }
\* the last iteration closed a window with an event inside the wait gate
GateClose ==
    /\ InState("Accumulate")
    /\ step.mlu.stop_time <= step.event.time
    /\ step.event.time < step.mlu.stop_time + wait_gate

(***************************************************************************)
(* C22: in state Accumulate{stop_time, cumulative} an event with           *)
(* stop_time <= time < stop_time + wait_gate moves the MLU to Wait with    *)
(* deadline event.time + wait_gate (from the closing event's time, not     *)
(* from stop_time), and that event's pattern is in no later accumulation:  *)
(* it is in no window then, a window only ever takes in the event being    *)
(* processed, and cumulative is the OR of the window's events.             *)
(***************************************************************************)
C22_GateFromClosingEvent ==
    /\ GateClose =>
          /\ mlu = Wait(step.event.time + wait_gate)
          /\ step.iter \notin Indices(window)
    /\ step.iter > 0 => Indices(window) \subseteq Indices(step.window) \cup {step.iter}
    /\ mlu.tag = "Accumulate" =>
          /\ window # << >>
          /\ mlu.cumulative = OrOfEvents(window)
    /\ mlu.tag # "Accumulate" => window = << >>

\* an event later than stop_time closed the window: the gate ends wait_gate after
\* the event, later than stop_time + wait_gate
C22_Witness ==
    /\ GateClose
    /\ step.event.time > step.mlu.stop_time
    /\ mlu = Wait(step.event.time + wait_gate)
    /\ mlu.stop_time > step.mlu.stop_time + wait_gate

\* a window opened after a gate that an event of another pattern had started
C22_WitnessLater ==
    /\ mlu.tag = "Accumulate"
    /\ mlu.cumulative = 1
    /\ \E k \in 1..Len(merged) : merged[k].wire_pattern = 2 /\ k < Head(window)
    /\ InState("Wait")

\* the last iteration closed a window with an event at or after the wait gate's end
LateClose ==
    /\ InState("Accumulate")
    /\ step.event.time >= step.mlu.stop_time + wait_gate
\* all merged events are at least prompt_window + wait_gate after the one before,
\* and all their patterns are in the table
Spaced ==
    /\ \A k \in 2..Len(merged) :
          merged[k].time - merged[k - 1].time >= prompt_window + wait_gate
    /\ \A k \in 1..Len(merged) : merged[k].wire_pattern \in table
\* the on_trg_in calls of iteration k
TrgInOf(k) ==
    LET Is(c) == c.cb = "on_trg_in" /\ c.iter = k
    IN  SelectSeq(observer, Is)

(***************************************************************************)
(* C23: in state Accumulate{stop_time, cumulative} an event with time >=   *)
(* stop_time + wait_gate takes the MLU directly to Accumulate with         *)
(* stop_time = event.time + prompt_window and cumulative = the event's     *)
(* pattern, while the old window is decided on the old cumulative and      *)
(* reported at the old stop_time; so when all events are at least          *)
(* prompt_window + wait_gate apart and all patterns are in the table,      *)
(* every event after the first yields a candidate at (previous event's     *)
(* time + prompt_window).                                                  *)
(***************************************************************************)
C23_LateEventReopens ==
    /\ LateClose =>
          /\ mlu = Accumulate(step.event.time + prompt_window, step.event.wire_pattern)
          /\ step.signal = IF step.mlu.cumulative \in table
                           THEN Some(TrgSignal(step.mlu.stop_time)) ELSE None
    /\ Spaced =>
          \A k \in 1..Len(merged) :
             TrgInOf(k) = IF k = 1 THEN << >>
                          ELSE << Call("on_trg_in",
                                       TrgSignal(merged[k - 1].time + prompt_window), k) >>

\* four events, each prompt_window + wait_gate after the one before: three
\* candidates
C23_Witness ==
    /\ Spaced
    /\ Len(merged) = 4
    /\ LateClose
    /\ Len(TimesOf("on_trg_in")) = 3
    /\ mlu.tag = "Accumulate"

\* an event at the gate's end closed a window whose pattern is not in the table:
\* no signal, and a new window
C23_WitnessNoSignal ==
    /\ LateClose
    /\ step.mlu.cumulative \notin table
    /\ step.signal = None
    /\ mlu.tag = "Accumulate"

\* the event of the last iteration came less than wait_gate after the one before
InBurst ==
    /\ step.iter >= 2
    /\ step.event.time - merged[step.iter - 1].time < wait_gate

(***************************************************************************)
(* C24: in state Wait{stop_time} every event with time < stop_time         *)
(* produces no signal and moves the deadline to event.time + wait_gate;    *)
(* so, starting in Wait, as long as each event arrives less than wait_gate *)
(* after the one before, the MLU stays in Wait and emits no candidate.     *)
(***************************************************************************)
C24_WaitIsExtended ==
    /\ (InState("Wait") /\ step.event.time < step.mlu.stop_time) =>
           /\ step.signal = None
           /\ mlu = Wait(step.event.time + wait_gate)
    /\ mlu.tag = "Wait" => mlu.stop_time = merged[Len(merged)].time + wait_gate
    /\ (InState("Wait") /\ InBurst) =>
           /\ mlu.tag = "Wait"
           /\ TrgCalls = << >>

\* two events in a row, each less than wait_gate after the one before, found the
\* MLU in Wait and left it there; the second was past the first deadline
C24_Witness ==
    /\ InState("Wait")
    /\ InBurst
    /\ step.iter = 4
    /\ merged[3].time - merged[2].time < wait_gate
    /\ step.event.time >= merged[2].time + wait_gate
    /\ mlu.tag = "Wait"
    /\ TimesOf("on_trg_in") = << merged[1].time + prompt_window >>

\* the state a new window is opened in by the event of the last iteration
Opened == Accumulate(step.event.time + prompt_window, step.event.wire_pattern)

(***************************************************************************)
(* C25: a new accumulation window is opened with stop_time = event.time +  *)
(* prompt_window and cumulative = the event's pattern, and no signal is    *)
(* produced, both by the first event ever processed (state Idle) and by an *)
(* event with time >= stop_time in state Wait{stop_time}; an event exactly *)
(* at the deadline opens the window.                                       *)
(***************************************************************************)
C25_WindowOpens ==
    /\ InState("Idle") <=> step.iter = 1
    /\ InState("Idle") => mlu = Opened /\ step.signal = None /\ TrgCalls = << >>
    /\ (InState("Wait") /\ step.event.time >= step.mlu.stop_time) =>
           mlu = Opened /\ step.signal = None /\ TrgCalls = << >>
    /\ step.iter = 0 => mlu = Idle

\* an event exactly at the deadline of the wait gate opened a window
C25_Witness ==
    /\ InState("Wait")
    /\ step.event.time = step.mlu.stop_time
    /\ mlu = Opened
    /\ window = << step.iter >>

\* the first event opened a window
C25_WitnessIdle ==
    /\ InState("Idle")
    /\ step.event.wire_pattern = 2
    /\ mlu = Accumulate(step.event.time + prompt_window, 2)

(***************************************************************************)
(* The admission pipeline as a whole.                                      *)
(***************************************************************************)
Verdicts == {"on_trg_drift_veto", "on_trg_scaledown", "on_trg_dead_time", "on_trg_out"}
CountOf(cb) == Len(TimesOf(cb))
WasBusy == step.busy_until # None /\ step.signal[1].time <= step.busy_until[1]

(***************************************************************************)
(* C26: every on_trg_in of the log is followed at once, before any other   *)
(* on_wire_event or on_trg_in, by exactly one of on_trg_drift_veto,        *)
(* on_trg_scaledown, on_trg_dead_time, on_trg_out for the same signal; so  *)
(* between events count(on_trg_in) is the sum of the four verdicts'        *)
(* counts; and the stages are tried in the order drift veto, scaledown,    *)
(* dead time.                                                              *)
(***************************************************************************)
C26_OneVerdictPerCandidate ==
    /\ \A i \in 1..Len(observer) :
          /\ observer[i].cb = "on_trg_in" =>
                /\ i < Len(observer)
                /\ observer[i + 1].cb \in Verdicts
                /\ observer[i + 1].arg = observer[i].arg
                /\ observer[i + 1].iter = observer[i].iter
          /\ observer[i].cb \in Verdicts =>
                /\ i > 1
                /\ observer[i - 1].cb = "on_trg_in"
    /\ CountOf("on_trg_in") = CountOf("on_trg_drift_veto") + CountOf("on_trg_scaledown")
                                + CountOf("on_trg_dead_time") + CountOf("on_trg_out")
    /\ Candidate =>
          /\ Len(TrgCalls) = 2
          /\ LastCb = IF Vetoed THEN "on_trg_drift_veto"
                      ELSE IF step.counter # scaledown THEN "on_trg_scaledown"
                      ELSE IF WasBusy THEN "on_trg_dead_time"
                      ELSE "on_trg_out"

\* a candidate inside the busy period met counter # scaledown: its one verdict was
\* the scaledown's; the log holds three candidates and three verdicts
C26_Witness ==
    /\ Candidate
    /\ ~Vetoed
    /\ WasBusy
    /\ step.counter # scaledown
    /\ LastCb = "on_trg_scaledown"
    /\ CountOf("on_trg_in") = 3
    /\ CountOf("on_trg_out") = 1

\* a candidate inside both the veto and the busy period was vetoed
C26_WitnessVeto ==
    /\ Candidate
    /\ Vetoed
    /\ WasBusy
    /\ LastCb = "on_trg_drift_veto"

(***************************************************************************)
(* C27: in every reachable state of World::run 0 <= counter <= scaledown;  *)
(* the counter is incremented only when counter # scaledown, so the        *)
(* increment never passes the largest value of the counter's type, for any *)
(* scaledown, the largest included.                                        *)
(***************************************************************************)
C27_CounterWithinScaledown ==
    /\ 0 <= counter
    /\ counter <= scaledown
    /\ scaledown <= CounterMax
    /\ (step.iter > 0 /\ counter # step.counter) =>
          /\ Candidate
          /\ \/ /\ LastCb = "on_trg_scaledown"
                /\ step.counter # scaledown
                /\ step.counter < CounterMax
                /\ counter = step.counter + 1
             \/ /\ LastCb \in {"on_trg_dead_time", "on_trg_out"}
                /\ step.counter = scaledown
                /\ counter = 0
    /\ (Candidate /\ LastCb = "on_trg_scaledown") => counter = step.counter + 1

\* with the largest scaledown the counter reached the largest value of its type,
\* and the next cleared candidate set it back to 0
C27_Witness ==
    /\ scaledown = CounterMax
    /\ Candidate
    /\ step.counter = CounterMax
    /\ LastCb = "on_trg_out"
    /\ counter = 0
    /\ CountOf("on_trg_scaledown") = CounterMax

\* the on_trg_in calls of the log: the signals Mlu::process returned, in order
TrgIns ==
    LET Is(c) == c.cb = "on_trg_in"
    IN  SelectSeq(observer, Is)

(***************************************************************************)
(* C28: for a time-non-decreasing event stream and positive prompt_window  *)
(* and wait_gate, the times of the signals returned by successive          *)
(* Mlu::process calls are strictly increasing, each signal's time is <=    *)
(* the time of the event that produced it, and at most one signal is       *)
(* produced per event.                                                     *)
(***************************************************************************)
C28_SignalTimesIncrease ==
    /\ prompt_window > 0 /\ wait_gate > 0
    /\ \A k \in 2..Len(merged) : merged[k - 1].time <= merged[k].time
    /\ \A i, j \in 1..Len(TrgIns) :
          i < j => /\ CallTime(TrgIns[i]) < CallTime(TrgIns[j])
                   /\ TrgIns[i].iter < TrgIns[j].iter
    /\ \A i \in 1..Len(TrgIns) : CallTime(TrgIns[i]) <= merged[TrgIns[i].iter].time
    /\ step.iter > 0 =>
          /\ step.signal = None <=> TrgInOf(step.iter) = << >>
          /\ step.signal # None =>
                TrgInOf(step.iter) = << Call("on_trg_in", step.signal[1], step.iter) >>

\* three signals, the last at the time of the event that produced it, the one
\* before it earlier than its event
C28_Witness ==
    /\ Len(TrgIns) = 3
    /\ CallTime(TrgIns[3]) = merged[TrgIns[3].iter].time
    /\ CallTime(TrgIns[2]) < merged[TrgIns[2].iter].time
    /\ CallTime(TrgIns[2]) - CallTime(TrgIns[1]) = prompt_window + wait_gate

(***************************************************************************)
(* C29: a window is decided only when a later wire event with time >= its  *)
(* stop_time arrives; if the merged sequence ends while the MLU is in      *)
(* Accumulate, World::run emits no on_trg_in for that last window, also    *)
(* when its cumulative pattern is in the lookup table; so a run over k     *)
(* events emits at most k - 1 candidates.                                  *)
(***************************************************************************)
C29_LastWindowUndecided ==
    /\ \A i \in 1..Len(TrgIns) :
          LET k == TrgIns[i].iter
          IN  /\ 2 <= k /\ k <= Len(merged)
              /\ merged[k].time >= CallTime(TrgIns[i])
              /\ merged[k - 1].time < CallTime(TrgIns[i])
    /\ mlu.tag = "Accumulate" =>
          \A i \in 1..Len(TrgIns) : CallTime(TrgIns[i]) < mlu.stop_time
    /\ Len(merged) > 0 => Len(TrgIns) <= Len(merged) - 1
    /\ Len(merged) = 0 => TrgIns = << >>

\* the run ended with a window open whose pattern is in the table: four events,
\* three candidates, none for the last window
C29_Witness ==
    /\ pc = "done"
    /\ mlu.tag = "Accumulate"
    /\ mlu.cumulative \in table
    /\ Len(merged) = 4
    /\ Len(TrgIns) = 3

\* a run over one event, whose pattern is in the table, ended without a candidate
C29_WitnessOne ==
    /\ pc = "done"
    /\ Len(merged) = 1
    /\ mlu.cumulative \in table
    /\ TrgIns = << >>

\* the smaller of two numbers
Min(a, b) == IF a < b THEN a ELSE b

(***************************************************************************)
(* C30: a candidate that arrives at the scaledown stage with counter ==    *)
(* scaledown resets the counter to 0 also when the dead time then          *)
(* suppresses it; so with scaledown = N a group of N + 1 candidates that   *)
(* cleared the drift veto can produce no on_trg_out at all, and the next   *)
(* output needs N further suppressions by the scaledown first.             *)
(***************************************************************************)
C30_DeadTimeConsumesTheSlot ==
    /\ (Passing /\ LastCb = "on_trg_dead_time") => counter = 0
    /\ \A k \in 1..Len(ClearedCalls) :
          ClearedCalls[k].cb = "on_trg_dead_time" =>
             /\ k % (scaledown + 1) = 0
             /\ \A j \in (k - scaledown)..(k - 1) :
                   ClearedCalls[j].cb = "on_trg_scaledown"
             /\ \A j \in (k + 1)..Min(k + scaledown, Len(ClearedCalls)) :
                   ClearedCalls[j].cb = "on_trg_scaledown"

\* scaledown 1: the second group of two cleared candidates, one scaled down and
\* one inside the busy period, gave no output, and the candidate after it was
\* scaled down again
C30_Witness ==
    /\ scaledown = 1
    /\ Len(ClearedCalls) = 5
    /\ ClearedCalls[2].cb = "on_trg_out"
    /\ ClearedCalls[3].cb = "on_trg_scaledown"
    /\ ClearedCalls[4].cb = "on_trg_dead_time"
    /\ ClearedCalls[5].cb = "on_trg_scaledown"
    /\ CountOf("on_trg_out") = 1

\* scaledown 0: the candidate after one suppressed by the dead time was accepted
C30_WitnessZero ==
    /\ scaledown = 0
    /\ Len(ClearedCalls) >= 3
    /\ ClearedCalls[2].cb = "on_trg_dead_time"
    /\ ClearedCalls[3].cb = "on_trg_out"

=============================================================================
